---------------------------- MODULE Spec2Model ----------------------------
(***************************************************************************)
(* State-machine model of backend/boot/wifi.py (class WiFiManager).        *)
(*                                                                         *)
(* One caller drives the public operations.  An operation that only        *)
(* reads is one action; an operation that runs external commands or        *)
(* assigns fields is a chain of steps, one per external command and one    *)
(* per field assignment, with pc naming the next step.  The outcome of     *)
(* every external command is chosen nondeterministically.                  *)
(***************************************************************************)
EXTENDS Integers, Sequences, FiniteSets, TLC

(***************************************************************************)
(* Bounds and constants                                                    *)
(***************************************************************************)

\* number of distinct network names the environment can offer
NumSsids == 2

\* range(30) of the poll loop in connect_to_network
MaxPolls == 30

Names == <<"A", "B", "C", "D">>

Ssids == {Names[i] : i \in 1..NumSsids}

\* Python's None
None == "None"

\* ssid arguments a caller can pass to connect_to_network
ReqSsids == Ssids \cup {""}

Passwords == {"", "secret"}

ClientIp == "10.0.0.7"

HotspotIp == "192.168.24.1"

(***************************************************************************)
(* Outcomes of subprocess.run                                              *)
(*   ok       the command ran and exited 0                                 *)
(*   nonzero  the command ran and exited non-zero                          *)
(*   timeout  subprocess.TimeoutExpired (only with timeout=...)            *)
(*   missing  FileNotFoundError                                            *)
(*   perm     PermissionError                                              *)
(***************************************************************************)
RunTimed == {"ok", "nonzero", "timeout", "missing", "perm"}

RunUntimed == {"ok", "nonzero", "missing", "perm"}

\* what the caller of subprocess.run sees when it never looks at the exit
\* code: a CompletedProcess, or the exception
Seen(o) == IF o \in {"ok", "nonzero"} THEN "completed" ELSE o

\* Python truthiness of an optional string
Truthy(v) == v # None /\ v # ""

(***************************************************************************)
(* Text helpers.  A command's standard output is a sequence of fragments,  *)
(* each either white space or a word.                                      *)
(***************************************************************************)
IsSpace(t) == t \in {" ", "    ", "\n", "\t"}

RECURSIVE LStrip(_)
LStrip(s) == IF s # <<>> /\ IsSpace(Head(s)) THEN LStrip(Tail(s)) ELSE s

RECURSIVE RStrip(_)
RStrip(s) ==
    IF s # <<>> /\ IsSpace(s[Len(s)]) THEN RStrip(SubSeq(s, 1, Len(s) - 1)) ELSE s

RECURSIVE Join(_)
Join(s) == IF s = <<>> THEN "" ELSE Head(s) \o Join(Tail(s))

\* str.strip()
Strip(s) == Join(RStrip(LStrip(s)))

\* str.rstrip('.') on the tokens of /proc/net/wireless
RStripDot(t) ==
    CASE t = "70." -> "70"
      [] t = "-40." -> "-40"
      [] t = "." -> ""
      [] OTHER -> t

\* dict.get(k): None when the key is absent
Get(d, k) == IF k \in DOMAIN d THEN d[k] ELSE None

(***************************************************************************)
(* get_current_network_info                                                *)
(***************************************************************************)

\* answers of `iwgetid -r`
SsidQueries ==
    {[kind |-> "ok", stdout |-> <<n, "\n">>] : n \in Ssids}
    \cup {[kind |-> "ok", stdout |-> <<>>],
          [kind |-> "nonzero", stdout |-> <<>>],
          [kind |-> "missing", stdout |-> <<>>]}

\* answers of netifaces for wlan0
IpQueries ==
    {[kind |-> "addr", addr |-> ClientIp],
     [kind |-> "noiface", addr |-> None],
     [kind |-> "noinet", addr |-> None],
     [kind |-> "oserror", addr |-> None]}

\* answers of `cat /proc/net/wireless`: the lines of the table, split
SigQueries ==
    {[kind |-> "ok", lines |-> << <<"Inter-|", "sta-|", "Quality">>,
                                  <<"wlan0:", "0000", "70.", "-40.", "-256">> >>],
     [kind |-> "ok", lines |-> << <<"Inter-|", "sta-|", "Quality">> >>],
     [kind |-> "ok", lines |-> << <<"wlan0:", "0000">> >>],
     [kind |-> "missing", lines |-> <<>>],
     [kind |-> "perm", lines |-> <<>>]}

\* 'wlan0' in line
HasWlan0(line) == \E i \in 1..Len(line) : line[i] \in {"wlan0:", "wlan0"}

\* lines 112-121: the first row naming wlan0 decides, parts[3] is its 4th token
RECURSIVE SignalOf(_)
SignalOf(lines) ==
    IF lines = <<>> THEN None
    ELSE IF HasWlan0(Head(lines))
         THEN IF Len(Head(lines)) >= 4 THEN RStripDot(Head(lines)[4]) ELSE None
         ELSE SignalOf(Tail(lines))

GetCurrentNetworkInfo(sq, iq, gq) ==
    IF sq.kind \in {"missing", "perm"} \/ gq.kind = "perm"
    THEN [connected |-> FALSE]
    ELSE LET current_ssid_ == IF sq.kind = "ok" THEN Strip(sq.stdout) ELSE None
             ip_address_ == IF iq.kind = "addr" THEN iq.addr ELSE None
             signal_strength_ == IF gq.kind = "ok" THEN SignalOf(gq.lines) ELSE None
         IN [ssid |-> current_ssid_,
             ip_address |-> ip_address_,
             signal_strength |-> signal_strength_,
             connected |-> (current_ssid_ # None /\ ip_address_ # None)]

\* the answers the three sub-queries give while the state machine runs: every
\* answer about the network name and the address, a readable table or none
LinkProbes ==
    {<<sq, iq, gq>> : sq \in SsidQueries, iq \in IpQueries,
                      gq \in {g \in SigQueries : g.kind = "perm" \/ Len(g.lines) = 2}}

\* the snapshots get_current_network_info returns for them
Snapshots == {GetCurrentNetworkInfo(q[1], q[2], q[3]) : q \in LinkProbes}

NoInfo == [connected |-> FALSE]

(***************************************************************************)
(* State                                                                   *)
(***************************************************************************)
VARIABLES
    connected,        \* self.connected
    hotspot_active,   \* self.hotspot_active
    current_ssid,     \* self.current_ssid
    ip_address,       \* self.ip_address
    config_ssid,      \* self.config.ssid
    config_password,  \* self.config.password
    pc,               \* the caller's position: "idle" between calls
    op,               \* the public operation called last
    caller,           \* who called stop_hotspot: "top", "cleanup", "connect_to_network"
    ssid,             \* connect_to_network's argument ssid
    password,         \* connect_to_network's argument password
    attempt,          \* polls made by connect_to_network's loop
    network_info,     \* the snapshot of the last get_current_network_info
    log,              \* external commands issued by the current call: <<command, outcome>>
    ret,              \* what the last call returned: "True", "False", "None",
                      \* "info", "status", "list", or "raised" for an exception
    stop_ret,         \* what stop_hotspot returned inside the current call
    pre,              \* the manager's fields when the current call began
    status,           \* the dict returned by the last get_status
    probe,            \* one call of get_current_network_info with its three answers
    wpa,              \* calls of _update_wpa_supplicant on one configuration file
    scan,             \* one call of scan_networks with the text it parses
    dash,             \* the dashboard cache, the clock and the media index
    reader            \* a second caller inside get_status: the entries it has loaded

\* the state of the manager and of its caller
mgr_vars == <<connected, hotspot_active, current_ssid, ip_address, config_ssid,
              config_password, pc, op, caller, ssid, password, attempt,
              network_info, log, ret, stop_ret, pre, status>>

vars == <<mgr_vars, probe, wpa, scan, dash, reader>>

\* the value of probe, wpa, scan, dash or reader in a specification that does not
\* follow it
Unused == [phase |-> "unused"]

fields == <<connected, hotspot_active, current_ssid, ip_address, config_ssid,
            config_password>>

\* the manager's fields as a record
State ==
    [connected |-> connected,
     hotspot_active |-> hotspot_active,
     current_ssid |-> current_ssid,
     ip_address |-> ip_address,
     config_ssid |-> config_ssid,
     config_password |-> config_password]

NoStatus == [connected |-> FALSE]

\* WiFiManager.__init__: Disconnected, with whatever credentials the
\* configuration file of the device holds
MgrInit ==
    /\ connected = FALSE
    /\ hotspot_active = FALSE
    /\ current_ssid = None
    /\ ip_address = None
    /\ config_ssid \in Ssids \cup {"", None}
    /\ config_password \in Passwords
    /\ pc = "idle"
    /\ op = "init"
    /\ caller = "top"
    /\ ssid = None
    /\ password = None
    /\ attempt = 0
    /\ network_info = NoInfo
    /\ log = <<>>
    /\ ret = "None"
    /\ stop_ret = "none"
    /\ pre = [connected |-> FALSE, hotspot_active |-> FALSE,
              current_ssid |-> None, ip_address |-> None,
              config_ssid |-> config_ssid, config_password |-> config_password]
    /\ status = NoStatus

Init ==
    /\ MgrInit
    /\ probe = Unused
    /\ wpa = Unused
    /\ scan = Unused
    /\ dash = Unused
    /\ reader = Unused

\* a manager nobody calls, for the specifications of single functions
MgrQuiet == MgrInit /\ config_ssid = None /\ config_password = ""

\* a public operation is entered
Begin(name) ==
    /\ pc = "idle"
    /\ op' = name
    /\ pre' = State
    /\ attempt' = 0
    /\ stop_ret' = "none"

\* the call returns v to the caller
Return(v) == pc' = "idle" /\ ret' = v

Issue(cmd, outcome) == log' = Append(log, <<cmd, outcome>>)

(***************************************************************************)
(* stop_hotspot (lines 295-325)                                            *)
(***************************************************************************)

\* stop_hotspot ends with v ("True", "False" or "raised"); control goes back
\* to whoever called it
sh_return(v) ==
    /\ stop_ret' = v
    /\ CASE caller = "top" -> Return(v)
         \* cleanup (342-347) ignores the result and returns None
         [] caller = "cleanup" -> Return(IF v = "raised" THEN "raised" ELSE "None")
         \* connect_to_network (141-145): a False is only logged; an
         \* exception lands in `except Exception` (181-183)
         [] caller = "connect_to_network" ->
                IF v = "raised" THEN Return("False")
                ELSE pc' = "ctn_update" /\ ret' = ret

\* the except clause of lines 322-325
sh_handler ==
    /\ hotspot_active' = FALSE
    /\ sh_return("False")

\* an exception the except clause does not name leaves stop_hotspot
sh_escape ==
    /\ hotspot_active' = hotspot_active
    /\ sh_return("raised")

\* a public call of stop_hotspot
stop_hotspot ==
    /\ Begin("stop_hotspot")
    /\ pc' = "sh_script"
    /\ caller' = "top"
    /\ ssid' = None /\ password' = None
    /\ network_info' = NoInfo /\ status' = NoStatus
    /\ ret' = "running"
    /\ log' = <<>>
    /\ UNCHANGED fields

\* lines 300-308, 314: sudo hotspot.sh stop, timeout=30
sh_script ==
    /\ pc = "sh_script"
    /\ \E o \in RunTimed :
        /\ Issue("hotspot.sh stop", o)
        /\ CASE o = "ok" ->
                    /\ hotspot_active' = FALSE
                    /\ pc' = "sh_dhcpcd"
                    /\ UNCHANGED <<ret, stop_ret>>
             [] o = "nonzero" ->
                    /\ pc' = "sh_hostapd"
                    /\ UNCHANGED <<hotspot_active, ret, stop_ret>>
             [] o \in {"timeout", "missing"} -> sh_handler
             [] o = "perm" -> sh_escape
    /\ UNCHANGED <<connected, current_ssid, ip_address, config_ssid,
                   config_password, op, caller, ssid, password, attempt,
                   network_info, pre, status>>

\* lines 310-312: sudo systemctl restart dhcpcd, timeout=10, exit code ignored
sh_dhcpcd ==
    /\ pc = "sh_dhcpcd"
    /\ \E o \in RunTimed :
        /\ Issue("systemctl restart dhcpcd", Seen(o))
        /\ CASE o \in {"ok", "nonzero"} ->
                    /\ hotspot_active' = hotspot_active
                    /\ sh_return("True")
             [] o \in {"timeout", "missing"} -> sh_handler
             [] o = "perm" -> sh_escape
    /\ UNCHANGED <<connected, current_ssid, ip_address, config_ssid,
                   config_password, op, caller, ssid, password, attempt,
                   network_info, pre, status>>

\* sh_manual as it would be if a completed fallback reported success
sh_manual_confirming(here, cmd, next) ==
    /\ pc = here
    /\ \E o \in RunUntimed :
        /\ Issue(cmd, o)
        /\ CASE o = "ok" ->
                    IF next = "done"
                    THEN /\ hotspot_active' = FALSE
                         /\ sh_return("True")
                    ELSE /\ pc' = next
                         /\ UNCHANGED <<hotspot_active, ret, stop_ret>>
             [] o \in {"nonzero", "missing"} -> sh_handler
             [] o = "perm" -> sh_escape
    /\ UNCHANGED <<connected, current_ssid, ip_address, config_ssid,
                   config_password, op, caller, ssid, password, attempt,
                   network_info, pre, status>>

\* sh_manual as it would be without check=True: a non-zero exit is ignored
sh_manual_unchecked(here, cmd, next) ==
    /\ pc = here
    /\ \E o \in RunUntimed :
        /\ Issue(cmd, o)
        /\ CASE o \in {"ok", "nonzero"} ->
                    IF next = "done"
                    THEN /\ hotspot_active' = FALSE
                         /\ sh_return("False")
                    ELSE /\ pc' = next
                         /\ UNCHANGED <<hotspot_active, ret, stop_ret>>
             [] o = "missing" -> sh_handler
             [] o = "perm" -> sh_escape
    /\ UNCHANGED <<connected, current_ssid, ip_address, config_ssid,
                   config_password, op, caller, ssid, password, attempt,
                   network_info, pre, status>>

\* one command of the manual fallback, run with check=True and no timeout:
\* a non-zero exit raises CalledProcessError
sh_manual(here, cmd, next) ==
    /\ pc = here
    /\ \E o \in RunUntimed :
        /\ Issue(cmd, o)
        /\ CASE o = "ok" ->
                    IF next = "done"
                    THEN \* lines 319-320
                         /\ hotspot_active' = FALSE
                         /\ sh_return("False")
                    ELSE /\ pc' = next
                         /\ UNCHANGED <<hotspot_active, ret, stop_ret>>
             [] o \in {"nonzero", "missing"} -> sh_handler
             [] o = "perm" -> sh_escape
    /\ UNCHANGED <<connected, current_ssid, ip_address, config_ssid,
                   config_password, op, caller, ssid, password, attempt,
                   network_info, pre, status>>

\* line 316
sh_hostapd == sh_manual("sh_hostapd", "systemctl stop hostapd", "sh_dnsmasq")

\* line 317
sh_dnsmasq == sh_manual("sh_dnsmasq", "systemctl stop dnsmasq", "sh_flush")

\* line 318
sh_flush == sh_manual("sh_flush", "ip addr flush dev wlan0", "done")

(***************************************************************************)
(* cleanup (lines 342-347)                                                 *)
(***************************************************************************)
cleanup ==
    /\ Begin("cleanup")
    /\ IF hotspot_active
       THEN pc' = "sh_script" /\ ret' = "running"
       ELSE Return("None")
    /\ caller' = "cleanup"
    /\ ssid' = None /\ password' = None
    /\ network_info' = NoInfo /\ status' = NoStatus
    /\ log' = <<>>
    /\ UNCHANGED fields

(***************************************************************************)
(* start_hotspot (lines 253-293)                                           *)
(***************************************************************************)

\* lines 255-263: os.access only decides whether a warning is logged
start_hotspot ==
    /\ Begin("start_hotspot")
    /\ \E writable \in BOOLEAN : pc' = "sth_script"
    /\ ret' = "running"
    /\ caller' = "top"
    /\ ssid' = None /\ password' = None
    /\ network_info' = NoInfo /\ status' = NoStatus
    /\ log' = <<>>
    /\ UNCHANGED fields

\* sth_script as it would be if every completed run counted as a start
sth_script_any_exit ==
    /\ pc = "sth_script"
    /\ \E o \in RunTimed :
        /\ Issue("hotspot.sh start", o)
        /\ IF o \in {"ok", "nonzero"}
           THEN pc' = "sth_set_hotspot_active" /\ ret' = ret
           ELSE Return("False")
    /\ UNCHANGED <<fields, op, caller, ssid, password, attempt, network_info,
                   stop_ret, pre, status>>

\* lines 266-275, 282-289: sudo hotspot.sh start ..., timeout=30
sth_script ==
    /\ pc = "sth_script"
    /\ \E o \in RunTimed :
        /\ Issue("hotspot.sh start", o)
        /\ IF o = "ok"
           THEN pc' = "sth_set_hotspot_active" /\ ret' = ret
           ELSE Return("False")
    /\ UNCHANGED <<fields, op, caller, ssid, password, attempt, network_info,
                   stop_ret, pre, status>>

\* line 276
sth_set_hotspot_active ==
    /\ pc = "sth_set_hotspot_active"
    /\ hotspot_active' = TRUE
    /\ pc' = "sth_set_connected"
    /\ UNCHANGED <<connected, current_ssid, ip_address, config_ssid,
                   config_password, op, caller, ssid, password, attempt,
                   network_info, log, ret, stop_ret, pre, status>>

\* sth_set_connected as it would be if line 277 were missing
sth_keep_connected ==
    /\ pc = "sth_set_connected"
    /\ pc' = "sth_set_current_ssid"
    /\ UNCHANGED <<fields, op, caller, ssid, password, attempt,
                   network_info, log, ret, stop_ret, pre, status>>

\* line 277
sth_set_connected ==
    /\ pc = "sth_set_connected"
    /\ connected' = FALSE
    /\ pc' = "sth_set_current_ssid"
    /\ UNCHANGED <<hotspot_active, current_ssid, ip_address, config_ssid,
                   config_password, op, caller, ssid, password, attempt,
                   network_info, log, ret, stop_ret, pre, status>>

\* sth_set_current_ssid as it would be if line 278 were missing
sth_keep_current_ssid ==
    /\ pc = "sth_set_current_ssid"
    /\ pc' = "sth_set_ip_address"
    /\ UNCHANGED <<fields, op, caller, ssid, password, attempt,
                   network_info, log, ret, stop_ret, pre, status>>

\* line 278
sth_set_current_ssid ==
    /\ pc = "sth_set_current_ssid"
    /\ current_ssid' = None
    /\ pc' = "sth_set_ip_address"
    /\ UNCHANGED <<connected, hotspot_active, ip_address, config_ssid,
                   config_password, op, caller, ssid, password, attempt,
                   network_info, log, ret, stop_ret, pre, status>>

\* lines 279-281
sth_set_ip_address ==
    /\ pc = "sth_set_ip_address"
    /\ ip_address' = HotspotIp
    /\ Return("True")
    /\ UNCHANGED <<connected, hotspot_active, current_ssid, config_ssid,
                   config_password, op, caller, ssid, password, attempt,
                   network_info, log, stop_ret, pre, status>>

(***************************************************************************)
(* connect_to_network (lines 137-183) and connect (lines 245-251)          *)
(***************************************************************************)

\* Matches as it would be if line 165 did not compare the ssid
MatchesAnySsid(info, s) == Get(info, "connected") = TRUE

\* line 165: network_info.get('connected') and network_info.get('ssid') == ssid
Matches(info, s) == Get(info, "connected") = TRUE /\ Get(info, "ssid") = s

\* lines 139-147: entered with arguments s and p, by the operation `name`
ctn_enter(name, s, p) ==
    /\ Begin(name)
    /\ ssid' = s
    /\ password' = p
    /\ pc' = IF hotspot_active THEN "sh_script" ELSE "ctn_update"
    /\ caller' = "connect_to_network"
    /\ ret' = "running"
    /\ network_info' = NoInfo /\ status' = NoStatus
    /\ log' = <<>>
    /\ UNCHANGED fields

connect_to_network == \E s \in ReqSsids, p \in Passwords :
    ctn_enter("connect_to_network", s, p)

\* connect as it would be if it connected without the stored password
connect_open ==
    IF ~Truthy(config_ssid)
    THEN /\ Begin("connect")
         /\ Return("False")
         /\ caller' = "top"
         /\ ssid' = None /\ password' = None
         /\ network_info' = NoInfo /\ status' = NoStatus
         /\ log' = <<>>
         /\ UNCHANGED fields
    ELSE ctn_enter("connect", config_ssid, "")

\* lines 245-251
connect ==
    IF ~Truthy(config_ssid)
    THEN /\ Begin("connect")
         /\ Return("False")
         /\ caller' = "top"
         /\ ssid' = None /\ password' = None
         /\ network_info' = NoInfo /\ status' = NoStatus
         /\ log' = <<>>
    /\ UNCHANGED fields
    ELSE ctn_enter("connect", config_ssid, config_password)

\* ctn_update_wpa_supplicant as it would be if lines 150-151 ignored the result
ctn_update_wpa_supplicant_unchecked ==
    /\ pc = "ctn_update"
    /\ \E o \in {"ok", "ioerror"} :
        /\ Issue("write wpa_supplicant.conf", o)
        /\ pc' = "ctn_restart" /\ ret' = ret
    /\ UNCHANGED <<fields, op, caller, ssid, password, attempt, network_info,
                   stop_ret, pre, status>>

\* lines 149-151: _update_wpa_supplicant (185-243) returns True once the file
\* is written and False when reading, writing or chmod raises
ctn_update_wpa_supplicant ==
    /\ pc = "ctn_update"
    /\ \E o \in {"ok", "ioerror"} :
        /\ Issue("write wpa_supplicant.conf", o)
        /\ IF o = "ok"
           THEN pc' = "ctn_restart" /\ ret' = ret
           ELSE Return("False")
    /\ UNCHANGED <<fields, op, caller, ssid, password, attempt, network_info,
                   stop_ret, pre, status>>

\* a fire-and-forget subprocess.run: the exit code is ignored, a command
\* that cannot be started raises into `except Exception` (181-183)
ctn_run(here, cmd, next) ==
    /\ pc = here
    /\ \E o \in RunUntimed :
        /\ Issue(cmd, Seen(o))
        /\ IF o \in {"ok", "nonzero"}
           THEN pc' = next /\ ret' = ret
           ELSE Return("False")
    /\ UNCHANGED <<fields, op, caller, ssid, password, attempt, network_info,
                   stop_ret, pre, status>>

\* lines 153-155
ctn_restart == ctn_run("ctn_restart", "systemctl restart wpa_supplicant", "ctn_reconfigure")

\* line 158
ctn_reconfigure == ctn_run("ctn_reconfigure", "wpa_cli reconfigure", "ctn_poll")

\* ctn_poll as it would be if the loop did not count its iterations
ctn_poll_uncounted ==
    /\ pc = "ctn_poll"
    /\ attempt < MaxPolls
    /\ attempt' = attempt
    /\ network_info' \in Snapshots
    /\ pc' = IF Matches(network_info', ssid) THEN "ctn_set_connected" ELSE "ctn_poll"
    /\ UNCHANGED <<fields, op, caller, ssid, password, log, ret, stop_ret,
                   pre, status>>

\* lines 161-165: one iteration of the poll loop
ctn_poll ==
    /\ pc = "ctn_poll"
    /\ attempt < MaxPolls
    /\ attempt' = attempt + 1
    /\ network_info' \in Snapshots
    /\ pc' = IF Matches(network_info', ssid) THEN "ctn_set_connected" ELSE "ctn_poll"
    /\ UNCHANGED <<fields, op, caller, ssid, password, log, ret, stop_ret,
                   pre, status>>

\* lines 178-179: the loop ran out
ctn_timeout ==
    /\ pc = "ctn_poll"
    /\ attempt = MaxPolls
    /\ Return("False")
    /\ UNCHANGED <<fields, op, caller, ssid, password, attempt, network_info,
                   log, stop_ret, pre, status>>

\* line 166
ctn_set_connected ==
    /\ pc = "ctn_set_connected"
    /\ connected' = TRUE
    /\ pc' = "ctn_set_current_ssid"
    /\ UNCHANGED <<hotspot_active, current_ssid, ip_address, config_ssid,
                   config_password, op, caller, ssid, password, attempt,
                   network_info, log, ret, stop_ret, pre, status>>

\* line 167
ctn_set_current_ssid ==
    /\ pc = "ctn_set_current_ssid"
    /\ current_ssid' = ssid
    /\ pc' = "ctn_set_ip_address"
    /\ UNCHANGED <<connected, hotspot_active, ip_address, config_ssid,
                   config_password, op, caller, ssid, password, attempt,
                   network_info, log, ret, stop_ret, pre, status>>

\* line 168
ctn_set_ip_address ==
    /\ pc = "ctn_set_ip_address"
    /\ ip_address' = Get(network_info, "ip_address")
    /\ pc' = "ctn_set_hotspot_active"
    /\ UNCHANGED <<connected, hotspot_active, current_ssid, config_ssid,
                   config_password, op, caller, ssid, password, attempt,
                   network_info, log, ret, stop_ret, pre, status>>

\* line 169
ctn_set_hotspot_active ==
    /\ pc = "ctn_set_hotspot_active"
    /\ hotspot_active' = FALSE
    /\ pc' = "ctn_set_config_ssid"
    /\ UNCHANGED <<connected, current_ssid, ip_address, config_ssid,
                   config_password, op, caller, ssid, password, attempt,
                   network_info, log, ret, stop_ret, pre, status>>

\* line 172
ctn_set_config_ssid ==
    /\ pc = "ctn_set_config_ssid"
    /\ config_ssid' = ssid
    /\ pc' = "ctn_set_config_password"
    /\ UNCHANGED <<connected, hotspot_active, current_ssid, ip_address,
                   config_password, op, caller, ssid, password, attempt,
                   network_info, log, ret, stop_ret, pre, status>>

\* ctn_set_config_password as it would be if line 173 were missing
ctn_keep_config_password ==
    /\ pc = "ctn_set_config_password"
    /\ Return("True")
    /\ UNCHANGED <<fields, op, caller, ssid, password, attempt,
                   network_info, log, stop_ret, pre, status>>

\* lines 173-176
ctn_set_config_password ==
    /\ pc = "ctn_set_config_password"
    /\ config_password' = password
    /\ Return("True")
    /\ UNCHANGED <<connected, hotspot_active, current_ssid, ip_address,
                   config_ssid, op, caller, ssid, password, attempt,
                   network_info, log, stop_ret, pre, status>>

(***************************************************************************)
(* The read-only operations                                                *)
(***************************************************************************)

\* lines 92-135, called by a collaborator
get_current_network_info ==
    /\ Begin("get_current_network_info")
    /\ network_info' \in Snapshots
    /\ Return("info")
    /\ caller' = "top"
    /\ ssid' = None /\ password' = None
    /\ status' = NoStatus
    /\ log' = <<>>
    /\ UNCHANGED fields

\* get_status as it would be if it stored what the link probe reports
get_status_syncing ==
    /\ Begin("get_status")
    /\ network_info' \in Snapshots
    /\ status' = [connected |-> connected,
                  hotspot_active |-> hotspot_active,
                  current_ssid |-> current_ssid,
                  ip_address |-> ip_address,
                  configured_ssid |-> config_ssid,
                  signal_strength |-> Get(network_info', "signal_strength"),
                  network_info |-> network_info']
    /\ connected' = network_info'.connected
    /\ current_ssid' = Get(network_info', "ssid")
    /\ ip_address' = Get(network_info', "ip_address")
    /\ Return("status")
    /\ caller' = "top"
    /\ ssid' = None /\ password' = None
    /\ log' = <<>>
    /\ UNCHANGED <<hotspot_active, config_ssid, config_password>>

\* lines 327-340
get_status ==
    /\ Begin("get_status")
    /\ network_info' \in Snapshots
    /\ status' = [connected |-> connected,
                  hotspot_active |-> hotspot_active,
                  current_ssid |-> current_ssid,
                  ip_address |-> ip_address,
                  configured_ssid |-> config_ssid,
                  signal_strength |-> Get(network_info', "signal_strength"),
                  network_info |-> network_info']
    /\ Return("status")
    /\ caller' = "top"
    /\ ssid' = None /\ password' = None
    /\ log' = <<>>
    /\ UNCHANGED fields

\* lines 36-90: both runs of `iwlist wlan0 scan` have timeout=10 and ignore
\* the exit code; any exception returns [] (88-90)
scan_networks ==
    /\ Begin("scan_networks")
    /\ \E o1 \in RunTimed, o2 \in RunTimed :
        log' = IF o1 \in {"ok", "nonzero"}
               THEN << <<"iwlist wlan0 scan", Seen(o1)>>,
                       <<"iwlist wlan0 scan", Seen(o2)>> >>
               ELSE << <<"iwlist wlan0 scan", Seen(o1)>> >>
    /\ Return("list")
    /\ caller' = "top"
    /\ ssid' = None /\ password' = None
    /\ network_info' = NoInfo /\ status' = NoStatus
    /\ UNCHANGED fields

Next ==
    \/ scan_networks
    \/ get_current_network_info
    \/ get_status
    \/ connect_to_network
    \/ connect
    \/ ctn_update_wpa_supplicant
    \/ ctn_restart
    \/ ctn_reconfigure
    \/ ctn_poll
    \/ ctn_timeout
    \/ ctn_set_connected
    \/ ctn_set_current_ssid
    \/ ctn_set_ip_address
    \/ ctn_set_hotspot_active
    \/ ctn_set_config_ssid
    \/ ctn_set_config_password
    \/ start_hotspot
    \/ sth_script
    \/ sth_set_hotspot_active
    \/ sth_set_connected
    \/ sth_set_current_ssid
    \/ sth_set_ip_address
    \/ cleanup
    \/ stop_hotspot
    \/ sh_script
    \/ sh_dhcpcd
    \/ sh_hostapd
    \/ sh_dnsmasq
    \/ sh_flush

Spec == Init /\ [][Next /\ UNCHANGED <<probe, wpa, scan, dash, reader>>]_vars

\* the calls that change the mode, one after the other in any order:
\* connect_to_network and start_hotspot, with the stop_hotspot inside
\* connect_to_network
ModeNext ==
    \/ connect_to_network
    \/ ctn_update_wpa_supplicant
    \/ ctn_restart
    \/ ctn_reconfigure
    \/ ctn_poll
    \/ ctn_timeout
    \/ ctn_set_connected
    \/ ctn_set_current_ssid
    \/ ctn_set_ip_address
    \/ ctn_set_hotspot_active
    \/ ctn_set_config_ssid
    \/ ctn_set_config_password
    \/ start_hotspot
    \/ sth_script
    \/ sth_set_hotspot_active
    \/ sth_set_connected
    \/ sth_set_current_ssid
    \/ sth_set_ip_address
    \/ sh_script
    \/ sh_dhcpcd
    \/ sh_hostapd
    \/ sh_dnsmasq
    \/ sh_flush

\* calls of connect_to_network and connect, one after the other
ConnectNext ==
    \/ connect_to_network
    \/ connect
    \/ ctn_update_wpa_supplicant
    \/ ctn_restart
    \/ ctn_reconfigure
    \/ ctn_poll
    \/ ctn_timeout
    \/ ctn_set_connected
    \/ ctn_set_current_ssid
    \/ ctn_set_ip_address
    \/ ctn_set_hotspot_active
    \/ ctn_set_config_ssid
    \/ ctn_set_config_password

\* a call that has begun takes its next step: the caller's thread keeps
\* running, and every external command returns or fails (the two commands
\* of connect_to_network have no timeout), as does every link probe
Running == pc # "idle" /\ ConnectNext /\ UNCHANGED <<probe, wpa, scan, dash, reader>>

LiveSpec ==
    /\ Init
    /\ [][ConnectNext /\ UNCHANGED <<probe, wpa, scan, dash, reader>>]_vars
    /\ WF_vars(Running)

(***************************************************************************)
(* A second caller inside get_status while the first caller runs the       *)
(* mode-changing calls.  The manager has no lock: get_status can run at    *)
(* any moment, and it loads the entries of its dict one at a time.         *)
(***************************************************************************)

\* the calls of the first caller that may begin during one read
MaxSpan == 2

\* the polls of connect_to_network's loop (lines 161-176) that the call of
\* the first caller may have made while the second caller is served
ReadPolls == 1

\* the second caller is not inside get_status
NotReading == [phase |-> "idle"]

\* the second caller is inside get_status and evaluates this entry next
Reading(entry) == reader.phase = entry

\* get_status has returned its dict and the second caller has not yet
\* taken it
Returned == reader.phase = "returned"

\* a step of the second caller: it can be taken at any position of the
\* first caller, within ReadPolls, and leaves the first caller and the
\* manager alone
ReaderFrame == attempt <= ReadPolls /\ UNCHANGED mgr_vars

\* line 329, run by the second caller.  get_current_network_info reads no
\* field of the manager and its result is the second caller's own, used
\* only by lines 338-339: gsi_return draws it
get_status_interleaved ==
    /\ Reading("idle")
    /\ reader' = [phase |-> "connected", calls |-> 0]
    /\ ReaderFrame

\* line 332
gsi_connected ==
    /\ Reading("connected")
    /\ reader' = [phase |-> "hotspot_active",
                  calls |-> reader.calls,
                  connected |-> connected]
    /\ ReaderFrame

\* line 333
gsi_hotspot_active ==
    /\ Reading("hotspot_active")
    /\ reader' = [phase |-> "current_ssid",
                  calls |-> reader.calls,
                  connected |-> reader.connected,
                  hotspot_active |-> hotspot_active]
    /\ ReaderFrame

\* line 334
gsi_current_ssid ==
    /\ Reading("current_ssid")
    /\ reader' = [phase |-> "ip_address",
                  calls |-> reader.calls,
                  connected |-> reader.connected,
                  hotspot_active |-> reader.hotspot_active,
                  current_ssid |-> current_ssid]
    /\ ReaderFrame

\* line 335
gsi_ip_address ==
    /\ Reading("ip_address")
    /\ reader' = [phase |-> "configured_ssid",
                  calls |-> reader.calls,
                  connected |-> reader.connected,
                  hotspot_active |-> reader.hotspot_active,
                  current_ssid |-> reader.current_ssid,
                  ip_address |-> ip_address]
    /\ ReaderFrame

\* lines 336-340: the last entries, and the dict is returned
gsi_return ==
    /\ Reading("configured_ssid")
    /\ \E info \in Snapshots :
          reader' = [phase |-> "returned",
                     status |-> [connected |-> reader.connected,
                                 hotspot_active |-> reader.hotspot_active,
                                 current_ssid |-> reader.current_ssid,
                                 ip_address |-> reader.ip_address,
                                 configured_ssid |-> config_ssid,
                                 signal_strength |-> Get(info, "signal_strength"),
                                 network_info |-> info]]
    /\ ReaderFrame

\* the second caller takes the dict; it may call get_status again
gsi_taken ==
    /\ Returned
    /\ reader' = NotReading
    /\ ReaderFrame

\* the second caller is inside get_status, its dict not yet returned
InRead == reader.phase \notin {"idle", "returned"}

\* a step of the first caller.  The returned dict is looked at before the
\* first caller goes on, and a read sees at most MaxSpan calls begin
Writer ==
    /\ ~Returned
    /\ ModeNext
    /\ InRead => attempt' <= ReadPolls
    /\ IF pc = "idle" /\ InRead
       THEN /\ reader.calls < MaxSpan
            /\ reader' = [reader EXCEPT !.calls = reader.calls + 1]
       ELSE reader' = reader

\* the mode-changing calls with the second caller's reads in between
RaceNext ==
    \/ Writer
    \/ get_status_interleaved
    \/ gsi_connected
    \/ gsi_hotspot_active
    \/ gsi_current_ssid
    \/ gsi_ip_address
    \/ gsi_return
    \/ gsi_taken

RaceInit ==
    /\ MgrInit
    /\ probe = Unused
    /\ wpa = Unused
    /\ scan = Unused
    /\ dash = Unused
    /\ reader = NotReading

RaceSpec == RaceInit /\ [][RaceNext /\ UNCHANGED <<probe, wpa, scan, dash>>]_vars

(***************************************************************************)
(* get_current_network_info on its own: the three answers are drawn at     *)
(* the start and the snapshot is computed from them.                       *)
(***************************************************************************)
ProbeInit ==
    /\ MgrQuiet
    /\ probe \in {[phase |-> "ask", sq |-> sq, iq |-> iq, gq |-> gq, info |-> NoInfo] :
                      sq \in SsidQueries, iq \in IpQueries, gq \in SigQueries}
    /\ wpa = Unused
    /\ scan = Unused
    /\ dash = Unused
    /\ reader = Unused

\* lines 92-135
probe_run ==
    /\ probe.phase = "ask"
    /\ probe' = [probe EXCEPT !.phase = "done",
                              !.info = GetCurrentNetworkInfo(probe.sq, probe.iq, probe.gq)]
    /\ UNCHANGED <<mgr_vars, wpa, scan, dash, reader>>

ProbeNext == probe_run

ProbeSpec == ProbeInit /\ [][ProbeNext]_vars

(***************************************************************************)
(* _update_wpa_supplicant (lines 185-243).  A line of the configuration    *)
(* file is a sequence of fragments ending in "\n"; the file is a sequence  *)
(* of lines.                                                               *)
(***************************************************************************)

\* most network blocks a starting file holds
MaxBlocks == 2

\* str.strip() of a line, as fragments
StripSeq(s) == RStrip(LStrip(s))

\* str.startswith
StartsWith(s, p) == Len(s) >= Len(p) /\ SubSeq(s, 1, Len(p)) = p

\* index of the first fragment c of s, 0 when there is none
RECURSIVE IndexOf(_, _)
IndexOf(s, c) ==
    IF s = <<>> THEN 0
    ELSE IF Head(s) = c THEN 1
    ELSE LET r == IndexOf(Tail(s), c) IN IF r = 0 THEN 0 ELSE r + 1

\* s.split(c)[1] for an s that holds c
SplitSecond(s, c) ==
    LET rest == SubSeq(s, IndexOf(s, c) + 1, Len(s))
        n == IndexOf(rest, c)
    IN IF n = 0 THEN rest ELSE SubSeq(rest, 1, n - 1)

\* str.strip('"')
RECURSIVE LStripQuotes(_)
LStripQuotes(s) == IF s # <<>> /\ Head(s) = "\"" THEN LStripQuotes(Tail(s)) ELSE s

RECURSIVE RStripQuotes(_)
RStripQuotes(s) ==
    IF s # <<>> /\ s[Len(s)] = "\"" THEN RStripQuotes(SubSeq(s, 1, Len(s) - 1)) ELSE s

StripQuotes(s) == RStripQuotes(LStripQuotes(s))

\* network_ssid = None
NoSsid == <<None>>

\* line 212: line.split('=')[1].strip().strip('"')
ParsedSsid(line) == StripQuotes(StripSeq(SplitSecond(line, "=")))

\* line 213: the marker every kept block is given
BlockOpen == <<"network", "=", "{", "\n">>

\* lines 195-197: the loop's variables before the first line; current_block
\* is not bound yet
LoopStart ==
    [new_lines |-> <<>>, in_network_block |-> FALSE, network_ssid |-> NoSsid,
     current_block |-> <<>>, bound |-> FALSE, raised |-> FALSE]

\* lines 200-218: the loop body for one line
LoopStep(st, line, target) ==
    LET s == StripSeq(line) IN
    IF StartsWith(s, <<"network", "=", "{">>)
    THEN [st EXCEPT !.in_network_block = TRUE, !.network_ssid = NoSsid]
    ELSE IF s = <<"}">> /\ st.in_network_block
    THEN IF st.network_ssid # target /\ ~st.bound
         THEN [st EXCEPT !.raised = TRUE]
         ELSE [st EXCEPT !.in_network_block = FALSE,
                         !.new_lines = IF st.network_ssid # target
                                       THEN st.new_lines \o st.current_block \o <<line>>
                                       ELSE st.new_lines,
                         !.current_block = <<>>,
                         !.bound = TRUE]
    ELSE IF st.in_network_block
    THEN IF StartsWith(s, <<"ssid", "=">>)
         THEN [st EXCEPT !.network_ssid = ParsedSsid(line),
                         !.current_block = <<BlockOpen, line>>,
                         !.bound = TRUE]
         ELSE IF ~st.bound
              THEN [st EXCEPT !.raised = TRUE]
              ELSE [st EXCEPT !.current_block = Append(st.current_block, line)]
    ELSE [st EXCEPT !.new_lines = Append(st.new_lines, line)]

\* line 199: the loop; an unbound current_block ends it with an exception
RECURSIVE Loop(_, _, _)
Loop(st, lines, target) ==
    IF lines = <<>> \/ st.raised THEN st
    ELSE Loop(LoopStep(st, Head(lines), target), Tail(lines), target)

\* NewBlock as it would be if the password test of line 224 were dropped
NewBlockAlwaysPsk(target, pw) ==
    << <<"\n", "network", "=", "{", "\n">>,
       <<"    ", "ssid", "=", "\"">> \o target \o <<"\"", "\n">>,
       <<"    ", "psk", "=", "\"">> \o pw \o <<"\"", "\n">>,
       <<"    ", "priority", "=", "1", "\n">>,
       <<"}", "\n">> >>

\* lines 220-230: the strings appended for the new block
NewBlock(target, pw) ==
    << <<"\n", "network", "=", "{", "\n">>,
       <<"    ", "ssid", "=", "\"">> \o target \o <<"\"", "\n">>,
       IF pw # <<>>
       THEN <<"    ", "psk", "=", "\"">> \o pw \o <<"\"", "\n">>
       ELSE <<"    ", "key_mgmt", "=", "NONE", "\n">>,
       <<"    ", "priority", "=", "1", "\n">>,
       <<"}", "\n">> >>

\* f.writelines: the strings one after the other
RECURSIVE Flatten(_)
Flatten(ss) == IF ss = <<>> THEN <<>> ELSE Head(ss) \o Flatten(Tail(ss))

\* f.readlines of what was written: a line ends with each "\n"
RECURSIVE SplitLines(_, _)
SplitLines(frags, cur) ==
    IF frags = <<>> THEN (IF cur = <<>> THEN <<>> ELSE <<cur>>)
    ELSE IF Head(frags) = "\n"
         THEN <<Append(cur, "\n")>> \o SplitLines(Tail(frags), <<>>)
         ELSE SplitLines(Tail(frags), Append(cur, Head(frags)))

\* what the file system does to one call: all is well, the file cannot be
\* read, it cannot be opened for writing, or sudo chmod cannot be started
IoOutcomes == {"ok", "read", "write", "chmod"}

\* _update_wpa_supplicant: the value returned and the file left behind.
\* file is [exists, lines]; target and pw are fragment sequences
UpdateWpaSupplicant(file, target, pw, io) ==
    LET config_lines == IF file.exists THEN file.lines ELSE <<>>
        st == Loop(LoopStart, config_lines, target)
        new_lines == st.new_lines \o NewBlock(target, pw)
        written == [exists |-> TRUE, lines |-> SplitLines(Flatten(new_lines), <<>>)]
    IN IF io = "read" /\ file.exists THEN [ok |-> FALSE, file |-> file]
       ELSE IF st.raised THEN [ok |-> FALSE, file |-> file]
       ELSE IF io = "write" THEN [ok |-> FALSE, file |-> file]
       ELSE IF io = "chmod" THEN [ok |-> FALSE, file |-> written]
       ELSE [ok |-> TRUE, file |-> written]

\* the lines starting files are made of
OpenLine == <<"network", "=", "{", "\n">>

OpenLineIndented == <<"    ", "network", "=", "{", "\n">>

CloseLine == <<"}", "\n">>

SsidLine(n) == <<"    ", "ssid", "=", "\"">> \o n \o <<"\"", "\n">>

PskLine == <<"    ", "psk", "=", "\"", "old", "\"", "\n">>

OpenNetLine == <<"    ", "key_mgmt", "=", "NONE", "\n">>

PriorityLine == <<"    ", "priority", "=", "5", "\n">>

HeaderLine == <<"ctrl_interface", "=", "DIR", "\n">>

\* network names in starting files and in calls
ConfNames == {<<"A">>, <<"B">>}

TargetSsids == {<<"A">>, <<"A", "=", "B">>}

TargetPasswords == {<<>>, <<"secret">>}

\* the blocks a starting file can hold: ssid first, a key before the ssid,
\* no ssid at all, an indented opening marker
StartBlocks ==
    {<<OpenLine, SsidLine(n), PskLine, CloseLine>> : n \in ConfNames}
    \cup {<<OpenLine, PriorityLine, SsidLine(n), PskLine, CloseLine>> : n \in ConfNames}
    \cup {<<OpenLine, OpenNetLine, CloseLine>>}
    \cup {<<OpenLineIndented, SsidLine(n), OpenNetLine, CloseLine>> : n \in ConfNames}

RECURSIVE BlockSeqs(_)
BlockSeqs(n) ==
    IF n = 0 THEN {<<>>}
    ELSE BlockSeqs(n - 1)
         \cup {<<b>> \o bs : b \in StartBlocks,
                             bs \in {x \in BlockSeqs(n - 1) : Len(x) = n - 1}}

\* the starting files: none, or a header or not followed by some blocks
StartFiles ==
    {[exists |-> FALSE, lines |-> <<>>]}
    \cup {[exists |-> TRUE, lines |-> h \o Flatten(bs)] :
            h \in {<<>>, <<HeaderLine>>}, bs \in BlockSeqs(MaxBlocks)}

WpaInit ==
    /\ MgrQuiet
    /\ probe = Unused
    /\ scan = Unused
    /\ dash = Unused
    /\ reader = Unused
    /\ wpa \in {[phase |-> "calls", file |-> f, target |-> s, pw |-> p,
                 orig |-> f, files |-> <<>>, rets |-> <<>>, ios |-> <<>>] :
                    f \in StartFiles, s \in TargetSsids, p \in TargetPasswords}

\* one call of _update_wpa_supplicant(target, pw); at most two are followed
wpa_update ==
    /\ wpa.phase = "calls"
    /\ Len(wpa.rets) < 2
    /\ \E io \in IoOutcomes :
        LET r == UpdateWpaSupplicant(wpa.file, wpa.target, wpa.pw, io) IN
        wpa' = [wpa EXCEPT !.file = r.file,
                           !.files = Append(wpa.files, r.file),
                           !.rets = Append(wpa.rets, r.ok),
                           !.ios = Append(wpa.ios, io)]
    /\ UNCHANGED <<mgr_vars, probe, scan, dash, reader>>

WpaNext == wpa_update

WpaSpec == WpaInit /\ [][WpaNext]_vars

(***************************************************************************)
(* scan_networks (lines 36-90).  A line of the scan output, already        *)
(* stripped, is a sequence of fragments; the markers the parser looks for  *)
(* are fragments of their own.                                             *)
(***************************************************************************)

\* most stanzas a scan output holds
MaxStanzas == 3

\* the fragments that hold a marker of the parser inside them
SubstringPairs ==
    {<<"Address: ", "Address:">>,
     <<"Encryption key:", "on">>,
     <<"encryption key:", "on">>}

\* x is a substring of the fragment f
Within(f, x) == f = x \/ <<f, x>> \in SubstringPairs

\* 'x' in line: a substring test.  No marker of the parser lies across two
\* fragments of the lines followed here
Contains(line, x) == \E i \in 1..Len(line) : Within(line[i], x)

\* str.lower on a fragment
LowerFragment(f) ==
    CASE f = "Cell" -> "cell"
      [] f = "Address: " -> "address: "
      [] f = "Address:" -> "address:"
      [] f = "Quality=" -> "quality="
      [] f = "Signal level=" -> "signal level="
      [] f = "dBm" -> "dbm"
      [] f = "Encryption key:" -> "encryption key:"
      [] f = "ON" -> "on"
      [] f = "ESSID:" -> "essid:"
      [] f = "Home" -> "home"
      [] f = "Scan completed :" -> "scan completed :"
      [] f = "AA:01" -> "aa:01"
      [] f = "AA:02" -> "aa:02"
      [] f = "AA:03" -> "aa:03"
      [] f = "AA:04" -> "aa:04"
      [] f = "AA:05" -> "aa:05"
      [] OTHER -> f

\* line.lower()
Lower(line) == [i \in 1..Len(line) |-> LowerFragment(line[i])]

\* line.split(sep)[1]: the fragments between the first sep and the next
AfterMarker(line, sep) == SplitSecond(line, sep)

\* a dict with d[k] = v
Put(d, k, v) == [x \in DOMAIN d \cup {k} |-> IF x = k THEN v ELSE d[x]]

\* {}
EmptyDict == <<>>

\* int(s): -1 stands for ValueError
IntOf(s) ==
    IF Len(s) # 1 THEN -1
    ELSE CASE s[1] = "0" -> 0
           [] s[1] = "5" -> 5
           [] s[1] = "35" -> 35
           [] s[1] = "70" -> 70
           [] OTHER -> -1

\* lines 65-73: the outcome of a Quality= line: [kind |-> "set", quality],
\* "skip" (nothing stored, also when ValueError is caught) or "raise"
\* (ZeroDivisionError, which line 71 does not catch)
QualityOf(line) ==
    LET after == AfterMarker(line, "Quality=")
        sp == IndexOf(after, " ")
        quality_part == IF sp = 0 THEN after ELSE SubSeq(after, 1, sp - 1)
        slash == IndexOf(quality_part, "/")
        current == SubSeq(quality_part, 1, slash - 1)
        max_val == SubSeq(quality_part, slash + 1, Len(quality_part))
    IN IF slash = 0 THEN [kind |-> "skip"]
       ELSE IF Contains(max_val, "/") THEN [kind |-> "skip"]
       ELSE IF IntOf(current) < 0 \/ IntOf(max_val) < 0 THEN [kind |-> "skip"]
       ELSE IF IntOf(max_val) = 0 THEN [kind |-> "raise"]
       ELSE [kind |-> "set", quality |-> (IntOf(current) * 100) \div IntOf(max_val)]

\* lines 48-49: the parser's variables before the first line
ParseStart == [networks |-> <<>>, current_network |-> EmptyDict, raised |-> FALSE]

\* lines 52-77: the loop body for one line
ParseStep(st, line) ==
    IF Contains(line, "Cell") /\ Contains(line, "Address:")
    THEN IF IndexOf(line, "Address: ") = 0
         THEN [st EXCEPT !.raised = TRUE]
         ELSE [st EXCEPT !.networks = IF DOMAIN st.current_network # {}
                                      THEN Append(st.networks, st.current_network)
                                      ELSE st.networks,
                         !.current_network =
                             Put(EmptyDict, "bssid", Join(AfterMarker(line, "Address: ")))]
    ELSE IF Contains(line, "ESSID:")
    THEN LET essid == Join(StripQuotes(AfterMarker(line, "ESSID:"))) IN
         IF essid # ""
         THEN [st EXCEPT !.current_network = Put(st.current_network, "ssid", essid)]
         ELSE st
    ELSE IF Contains(line, "Quality=")
    THEN LET q == QualityOf(line) IN
         CASE q.kind = "set" ->
                [st EXCEPT !.current_network = Put(st.current_network, "quality", q.quality)]
           [] q.kind = "skip" -> st
           [] q.kind = "raise" -> [st EXCEPT !.raised = TRUE]
    ELSE IF Contains(line, "Encryption key:")
    THEN [st EXCEPT !.current_network =
                        Put(st.current_network, "encrypted", Contains(Lower(line), "on"))]
    ELSE st

\* line 51: the loop; an exception ends it
RECURSIVE Parse(_, _)
Parse(st, lines) ==
    IF lines = <<>> \/ st.raised THEN st
    ELSE Parse(ParseStep(st, Head(lines)), Tail(lines))

\* line 83: x.get('quality', 0)
SortKey(n) == IF "quality" \in DOMAIN n THEN n.quality ELSE 0

\* n put behind the records that sort before it or with it
RECURSIVE InsertDesc(_, _)
InsertDesc(sorted, n) ==
    IF sorted = <<>> THEN <<n>>
    ELSE IF SortKey(Head(sorted)) >= SortKey(n)
         THEN <<Head(sorted)>> \o InsertDesc(Tail(sorted), n)
         ELSE <<n>> \o sorted

RECURSIVE SortedFrom(_, _)
SortedFrom(sorted, rest) ==
    IF rest = <<>> THEN sorted
    ELSE SortedFrom(InsertDesc(sorted, Head(rest)), Tail(rest))

RECURSIVE Reverse(_)
Reverse(s) == IF s = <<>> THEN <<>> ELSE Append(Reverse(Tail(s)), Head(s))

\* SortByQuality as it would be if the best-first order came from reversing
\* an ascending sort
SortByQualityReversed(networks) == SortedFrom(<<>>, Reverse(networks))

\* line 83: list.sort(key=..., reverse=True), which is stable
SortByQuality(networks) == SortedFrom(<<>>, networks)

\* scan_networks: the list returned for the second run's output; run is
\* what became of the two runs of iwlist
ScanNetworks(stdout, run) ==
    LET st == Parse(ParseStart, stdout)
        networks == IF DOMAIN st.current_network # {}
                    THEN Append(st.networks, st.current_network)
                    ELSE st.networks
    IN IF run # "completed" \/ st.raised THEN <<>> ELSE SortByQuality(networks)

\* the hardware address of the i-th stanza
Bssids == <<"AA:01", "AA:02", "AA:03", "AA:04", "AA:05">>

\* the Quality= fields a stanza can carry: none, three ratios (whose
\* percentage the floating-point division of line 69 gives exactly), a
\* ratio that is not numeric, one without '/', one with maximum 0
QualityFields ==
    {<<>>, <<"70", "/", "70">>, <<"35", "/", "70">>, <<"0", "/", "70">>,
     <<"x", "/", "70">>, <<"70">>, <<"5", "/", "0">>}

\* a stanza is its quality field and whether it names itself: a named one
\* reports its key as on, an unnamed one as off
StanzaShapes == {[quality |-> q, named |-> b] : q \in QualityFields, b \in BOOLEAN}

\* the lines of the i-th stanza
StanzaLines(i, s) ==
    << <<"Cell", " ", "0", " - ", "Address: ", Bssids[i]>> >>
    \o (IF s.quality = <<>> THEN <<>>
        ELSE << <<"Quality=">> \o s.quality \o <<" ", "Signal level=", "-40", " ", "dBm">> >>)
    \o (IF s.named
        THEN << <<"Encryption key:", "on">>, <<"ESSID:", "\"", "Home", "\"">> >>
        ELSE << <<"Encryption key:", "off">>, <<"ESSID:", "\"", "\"">> >>)

RECURSIVE StanzaSeqs(_)
StanzaSeqs(n) ==
    IF n = 0 THEN {<<>>}
    ELSE StanzaSeqs(n - 1)
         \cup {Append(ss, s) : ss \in {x \in StanzaSeqs(n - 1) : Len(x) = n - 1},
                               s \in StanzaShapes}

RECURSIVE ScanText(_, _)
ScanText(stanzas, i) ==
    IF i > Len(stanzas) THEN <<>>
    ELSE StanzaLines(i, stanzas[i]) \o ScanText(stanzas, i + 1)

\* the output of iwlist: its heading, then the stanzas
ScanOutput(stanzas) == << <<"wlan0", " ", "Scan completed :">> >> \o ScanText(stanzas, 1)

ScanInit ==
    /\ MgrQuiet
    /\ probe = Unused
    /\ wpa = Unused
    /\ dash = Unused
    /\ reader = Unused
    /\ scan \in {[phase |-> "ask", stanzas |-> ss, run |-> r, result |-> <<>>] :
                    ss \in StanzaSeqs(MaxStanzas), r \in {"completed", "timeout"}}

\* lines 36-90
scan_run ==
    /\ scan.phase = "ask"
    /\ scan' = [scan EXCEPT !.phase = "done",
                            !.result = ScanNetworks(ScanOutput(scan.stanzas), scan.run)]
    /\ UNCHANGED <<mgr_vars, probe, wpa, dash, reader>>

ScanNext == scan_run

ScanSpec == ScanInit /\ [][ScanNext]_vars

(***************************************************************************)
(* The dashboard cache (web/routes/dashboard.py) and the media routes that *)
(* invalidate it (web/routes/media.py).  The requests run on one event     *)
(* loop: a handler is one step up to each await that can suspend it, and   *)
(* only upload_media has one.  The clock is time.time() in whole seconds.  *)
(***************************************************************************)

\* dashboard.py line 24: _cache_ttl
CacheTtl == 5

\* the clock readings followed
MaxTime == 7

\* most changes made to the media index
MaxMutations == 2

\* _dashboard_cache = None
NoCache == [kind |-> "none"]

\* nothing returned yet
NoRequest == [op |-> "none", outcome |-> "none", value |-> NoCache, at |-> 0]

\* the routes of media.py that change the media index
Mutations == {"upload_media", "activate_media", "delete_media", "cleanup_orphaned_media"}

\* what a route has just answered
Served(route, outcome, value) ==
    [op |-> route, outcome |-> outcome, value |-> value, at |-> dash.now]

\* invalidate_dashboard_cache as it would be if it reset only the timestamp
invalidate_timestamp_only(d) == [d EXCEPT !.timestamp = 0, !.fresh = FALSE]

\* dashboard.py lines 163-168
invalidate_dashboard_cache(d) ==
    [d EXCEPT !.cache = NoCache, !.timestamp = 0, !.fresh = FALSE]

\* the media index is changed; done tells whether the route got to its end
Mutated(d, done) ==
    [d EXCEPT !.media = d.media + 1,
              !.committed = IF done THEN d.committed + 1 ELSE d.committed]

DashInit ==
    /\ MgrQuiet
    /\ probe = Unused
    /\ wpa = Unused
    /\ scan = Unused
    /\ dash = [phase |-> "serving", now |-> 0, cache |-> NoCache, timestamp |-> 0,
               media |-> 0, committed |-> 0, fresh |-> FALSE, upload |-> "idle",
               last |-> NoRequest]
    /\ reader = Unused

\* a second goes by
time_passes ==
    /\ dash.phase = "serving"
    /\ dash.now < MaxTime
    /\ dash' = [dash EXCEPT !.now = dash.now + 1]
    /\ UNCHANGED <<mgr_vars, probe, wpa, scan, reader>>

\* dashboard.py lines 86-136: the await of collect_device_status never
\* suspends, so the handler is one step
get_dashboard ==
    /\ dash.phase = "serving"
    /\ LET current_time == dash.now
           built == [kind |-> "data", media |-> dash.media,
                     committed |-> dash.committed, built |-> current_time]
       IN IF dash.cache.kind # "none" /\ (current_time - dash.timestamp) < CacheTtl
          THEN dash' = [dash EXCEPT !.last = Served("get_dashboard", "cached", dash.cache)]
          ELSE dash' = [dash EXCEPT !.cache = built,
                                    !.timestamp = current_time,
                                    !.fresh = TRUE,
                                    !.last = Served("get_dashboard", "rebuilt", built)]
    /\ UNCHANGED <<mgr_vars, probe, wpa, scan, reader>>

\* media.py lines 86-99: no player (503), an unknown slug (KeyError, 404),
\* the player failing after the index was changed, or success
activate_media ==
    /\ dash.phase = "serving"
    /\ \E outcome \in {"ok", "unavailable", "notfound", "player_error"} :
        CASE outcome \in {"unavailable", "notfound"} ->
                dash' = [dash EXCEPT !.last = Served("activate_media", outcome, NoCache)]
          [] outcome = "player_error" ->
                /\ dash.media < MaxMutations
                /\ dash' = [Mutated(dash, FALSE) EXCEPT
                               !.last = Served("activate_media", outcome, NoCache)]
          [] outcome = "ok" ->
                /\ dash.media < MaxMutations
                /\ dash' = [invalidate_dashboard_cache(Mutated(dash, TRUE)) EXCEPT
                               !.last = Served("activate_media", outcome, NoCache)]
    /\ UNCHANGED <<mgr_vars, probe, wpa, scan, reader>>

\* media.py lines 101-162: the player failing before anything is removed,
\* a file that cannot be removed after the index was changed, or success
delete_media ==
    /\ dash.phase = "serving"
    /\ \E outcome \in {"ok", "player_error", "file_error"} :
        CASE outcome = "player_error" ->
                dash' = [dash EXCEPT !.last = Served("delete_media", outcome, NoCache)]
          [] outcome = "file_error" ->
                /\ dash.media < MaxMutations
                /\ dash' = [Mutated(dash, FALSE) EXCEPT
                               !.last = Served("delete_media", outcome, NoCache)]
          [] outcome = "ok" ->
                /\ dash.media < MaxMutations
                /\ dash' = [invalidate_dashboard_cache(Mutated(dash, TRUE)) EXCEPT
                               !.last = Served("delete_media", outcome, NoCache)]
    /\ UNCHANGED <<mgr_vars, probe, wpa, scan, reader>>

\* media.py lines 164-183: cleanup_orphaned_files removes orphans (cleaned)
\* or finds none, and may raise; the player may fail to refresh after the
\* index was changed; the cache is dropped only when something was cleaned
cleanup_orphaned_media ==
    /\ dash.phase = "serving"
    /\ \E cleaned \in BOOLEAN, failure \in {"none", "index", "player"} :
        /\ cleaned => dash.media < MaxMutations
        /\ LET d == IF cleaned THEN Mutated(dash, failure = "none") ELSE dash
           IN IF failure = "none"
              THEN dash' = [(IF cleaned THEN invalidate_dashboard_cache(d) ELSE d) EXCEPT
                               !.last = Served("cleanup_orphaned_media", "ok", NoCache)]
              ELSE dash' = [d EXCEPT
                               !.last = Served("cleanup_orphaned_media", "error", NoCache)]
    /\ UNCHANGED <<mgr_vars, probe, wpa, scan, reader>>

\* media.py lines 50-63: upload_media up to its await of process_upload
upload_media ==
    /\ dash.phase = "serving"
    /\ dash.upload = "idle"
    /\ dash.media < MaxMutations
    /\ dash' = [dash EXCEPT !.upload = "running"]
    /\ UNCHANGED <<mgr_vars, probe, wpa, scan, reader>>

\* media.py lines 63-65: process_upload adds the files to the media index
\* while other requests are served
upload_store ==
    /\ dash.phase = "serving"
    /\ dash.upload = "running"
    /\ dash' = [Mutated(dash, FALSE) EXCEPT !.upload = "stored"]
    /\ UNCHANGED <<mgr_vars, probe, wpa, scan, reader>>

\* media.py lines 67-80: process_upload has returned
upload_done ==
    /\ dash.phase = "serving"
    /\ dash.upload = "stored"
    /\ dash' = [invalidate_dashboard_cache(dash) EXCEPT
                   !.committed = dash.committed + 1,
                   !.upload = "idle",
                   !.last = Served("upload_media", "ok", NoCache)]
    /\ UNCHANGED <<mgr_vars, probe, wpa, scan, reader>>

\* media.py lines 82-84: process_upload has raised
upload_failed ==
    /\ dash.phase = "serving"
    /\ dash.upload \in {"running", "stored"}
    /\ dash' = [dash EXCEPT !.upload = "idle",
                            !.last = Served("upload_media", "error", NoCache)]
    /\ UNCHANGED <<mgr_vars, probe, wpa, scan, reader>>

DashNext ==
    \/ time_passes
    \/ get_dashboard
    \/ activate_media
    \/ delete_media
    \/ cleanup_orphaned_media
    \/ upload_media
    \/ upload_store
    \/ upload_done
    \/ upload_failed

DashSpec == DashInit /\ [][DashNext]_vars

(***************************************************************************)
(* Properties                                                              *)
(***************************************************************************)

\* the last call has returned (or raised) and no other has begun
Completed == pc = "idle"

\* the last call ran the body of connect_to_network
RanConnect == op \in {"connect_to_network", "connect"} /\ ssid # None

\* stop_hotspot ran in the current call and has finished
StopFinished == stop_ret # "none"

FallbackCmds ==
    <<"systemctl stop hostapd", "systemctl stop dnsmasq", "ip addr flush dev wlan0">>

IsFallbackCmd(e) == \E i \in 1..3 : e[1] = FallbackCmds[i]

\* the fallback commands the current call issued, in order, with outcomes
Fallback == SelectSeq(log, IsFallbackCmd)

\* stop_hotspot took the manual fallback: the helper script exited non-zero
FallbackTaken == StopFinished /\ log[1] = <<"hotspot.sh stop", "nonzero">>

\* the command was issued by the current call
Issued(cmd) == \E i \in 1..Len(log) : log[i][1] = cmd

\* C1: after every completed call, connected and hotspot_active are never
\* both true.
C1_ModesExclusive == Completed => ~(connected /\ hotspot_active)

\* start_hotspot succeeded on a manager that was in Client mode
C1_Witness ==
    /\ Completed /\ op = "start_hotspot" /\ ret = "True"
    /\ pre.connected /\ hotspot_active

\* C2 (as claimed): after 30 polls none of which matched, connect_to_network
\* has returned False and the manager is Disconnected, whatever state it was
\* in before the call.
C2_ExhaustedIsDisconnected ==
    (/\ Completed /\ RanConnect /\ attempt = MaxPolls
     /\ ~(Get(network_info, "connected") = TRUE /\ Get(network_info, "ssid") = ssid))
    => (ret = "False" /\ ~connected /\ ~hotspot_active)

\* C3 (as claimed): whenever stop_hotspot has finished, by returning True or
\* False or by an exception, hotspot_active is false.
C3_StopClearsHotspot == StopFinished => ~hotspot_active

\* C4: connect_to_network assigns the Client fields and returns True only at
\* a poll, among at most 30, whose snapshot is connected with the requested
\* ssid; the loop never polls again after such a snapshot, the address stored
\* is that snapshot's and is not None, and a call that returns False has left
\* connected, current_ssid and ip_address as they were.
C4_ClientOnlyOnMatch ==
    /\ (RanConnect /\ (ret = "True" \/ pc \in {"ctn_set_connected",
            "ctn_set_current_ssid", "ctn_set_ip_address", "ctn_set_hotspot_active",
            "ctn_set_config_ssid", "ctn_set_config_password"}))
       => /\ attempt \in 1..MaxPolls
          /\ Get(network_info, "connected") = TRUE
          /\ Get(network_info, "ssid") = ssid
          /\ Get(network_info, "ip_address") # None
    /\ (Completed /\ RanConnect /\ ret = "True")
       => /\ connected
          /\ current_ssid = ssid
          /\ ip_address = Get(network_info, "ip_address")
          /\ ~hotspot_active
    /\ (pc = "ctn_poll" /\ attempt > 0)
       => ~(Get(network_info, "connected") = TRUE /\ Get(network_info, "ssid") = ssid)
    /\ (Completed /\ RanConnect /\ ret = "False")
       => /\ connected = pre.connected
          /\ current_ssid = pre.current_ssid
          /\ ip_address = pre.ip_address

\* a connect that succeeded at a later poll, after a snapshot that was
\* connected on another network
C4_Witness ==
    /\ Completed /\ RanConnect /\ ret = "True"
    /\ attempt > 1
    /\ pre.current_ssid \notin {None, ssid}

\* C5 (as claimed): a connect_to_network entered with the hotspot active
\* issues the helper's stop first and then always goes on to rewrite the
\* configuration file, whatever the stop did.
C5_ProceedsAfterStop ==
    (Completed /\ RanConnect /\ pre.hotspot_active)
    => /\ Len(log) >= 2
       /\ log[1][1] = "hotspot.sh stop"
       /\ Issued("write wpa_supplicant.conf")

\* C6 (as claimed): no public operation raises to its caller.
C6_NeverRaises == Completed => ret # "raised"

\* C7 (as claimed): once the manual fallback is taken, stop_hotspot issues
\* all three fallback commands, in order, in every execution.
C7_AllThreeIssued ==
    FallbackTaken
    => [i \in 1..Len(Fallback) |-> Fallback[i][1]] = FallbackCmds

\* C7 (amended): the fallback commands issued are a non-empty prefix of
\* stop hostapd, stop dnsmasq, flush wlan0; each is issued only after all
\* earlier ones exited zero, and the sequence is cut short exactly by a
\* command that failed.
C7_FallbackUntilFirstFailure ==
    FallbackTaken
    => /\ Len(Fallback) \in 1..3
       /\ \A i \in 1..Len(Fallback) : Fallback[i][1] = FallbackCmds[i]
       /\ \A i \in 1..(Len(Fallback) - 1) : Fallback[i][2] = "ok"
       /\ Len(Fallback) < 3 => Fallback[Len(Fallback)][2] # "ok"

\* the fallback ended at its first command, which exited non-zero
C7_Witness ==
    /\ FallbackTaken
    /\ Fallback = << <<"systemctl stop hostapd", "nonzero">> >>

\* C8 (as claimed): when the helper's stop exits zero, stop_hotspot returns
\* True whatever the restart of dhcpcd does.
C8_ScriptOkReturnsTrue ==
    (StopFinished /\ log[1] = <<"hotspot.sh stop", "ok">>) => stop_ret = "True"

\* C9: start_hotspot issues the helper's start once; exit zero gives the
\* Hotspot state with the gateway address and returns True, leaving the
\* credentials alone; every other outcome returns False and leaves all six
\* fields as they were.
C9_StartHotspotEffect ==
    (Completed /\ op = "start_hotspot")
    => /\ Len(log) = 1
       /\ log[1][1] = "hotspot.sh start"
       /\ log[1][2] = "ok"
          => /\ ret = "True"
             /\ State = [pre EXCEPT !.hotspot_active = TRUE,
                                    !.connected = FALSE,
                                    !.current_ssid = None,
                                    !.ip_address = HotspotIp]
       /\ log[1][2] # "ok"
          => /\ ret = "False"
             /\ State = pre

\* the helper exited non-zero on a manager that was in Client mode
C9_Witness ==
    /\ Completed /\ op = "start_hotspot"
    /\ log = << <<"hotspot.sh start", "nonzero">> >>
    /\ pre.connected /\ pre.current_ssid # None

\* C10: after every completed call, a current_ssid that is not None comes
\* with connected = true and hotspot_active = false.
C10_SsidOnlyInClient ==
    Completed => (current_ssid # None => (connected /\ ~hotspot_active))

\* a connect that succeeded on a manager that was in Hotspot mode
C10_Witness ==
    /\ Completed /\ RanConnect /\ pre.hotspot_active
    /\ current_ssid # None

\* C18: get_status leaves connected, hotspot_active, current_ssid,
\* ip_address, config.ssid and config.password as they were, whatever the
\* link probe reports.
C18_StatusIsPure ==
    (Completed /\ op = "get_status") => (ret = "status" /\ State = pre)

\* a get_status on a Client whose probe reports no link
C18_Witness ==
    /\ Completed /\ op = "get_status"
    /\ connected /\ current_ssid # None
    /\ ~status.network_info.connected

\* C19: when the manual fallback is taken and all three of its commands exit
\* zero, stop_hotspot returns False and hotspot_active is false.
C19_FallbackReportsFalse ==
    (/\ FallbackTaken
     /\ Len(Fallback) = 3
     /\ \A i \in 1..3 : Fallback[i][2] = "ok")
    => (stop_ret = "False" /\ ~hotspot_active)

\* a public stop_hotspot on an active hotspot whose fallback ran to the end
C19_Witness ==
    /\ Completed /\ op = "stop_hotspot" /\ pre.hotspot_active
    /\ FallbackTaken
    /\ Fallback = << <<FallbackCmds[1], "ok">>, <<FallbackCmds[2], "ok">>,
                     <<FallbackCmds[3], "ok">> >>

\* _update_wpa_supplicant returned False in the current call
RewriteFailed ==
    \E i \in 1..Len(log) : log[i] = <<"write wpa_supplicant.conf", "ioerror">>

\* C20: when the rewrite of the configuration file fails, connect_to_network
\* returns False without restarting or reconfiguring wpa_supplicant and
\* without a poll, and connected, current_ssid, ip_address and the
\* credentials are as before the call.
C20_RewriteFailureAborts ==
    (RanConnect /\ RewriteFailed)
    => /\ Completed
       /\ ret = "False"
       /\ ~Issued("systemctl restart wpa_supplicant")
       /\ ~Issued("wpa_cli reconfigure")
       /\ attempt = 0
       /\ connected = pre.connected
       /\ current_ssid = pre.current_ssid
       /\ ip_address = pre.ip_address
       /\ config_ssid = pre.config_ssid
       /\ config_password = pre.config_password

\* the rewrite failed for a Client asking for another network
C20_Witness ==
    /\ Completed /\ RanConnect /\ RewriteFailed
    /\ pre.connected /\ pre.current_ssid # ssid

(***************************************************************************)
(* Properties of get_current_network_info (ProbeSpec)                      *)
(***************************************************************************)

\* what each sub-query yields when looked at alone
NameAlone(sq) == IF sq.kind = "ok" THEN Strip(sq.stdout) ELSE None

AddressAlone(iq) == IF iq.kind = "addr" THEN iq.addr ELSE None

SignalAlone(gq) == IF gq.kind = "ok" THEN SignalOf(gq.lines) ELSE None

\* C16 (as claimed): each field of the snapshot is what its own sub-query
\* yields, whatever happened to the other two, also when the ssid query
\* command cannot be invoked.
C16_SubQueriesIndependent ==
    probe.phase = "done"
    => /\ Get(probe.info, "ssid") = NameAlone(probe.sq)
       /\ Get(probe.info, "ip_address") = AddressAlone(probe.iq)
       /\ Get(probe.info, "signal_strength") = SignalAlone(probe.gq)

\* C17 (as claimed): the snapshot has connected = true exactly when a
\* network name and an address are both present, an ssid query that exits
\* non-zero or prints nothing counting as no network.
C17_ConnectedIffNameAndAddress ==
    probe.phase = "done"
    => (probe.info.connected
        <=> (/\ probe.sq.kind = "ok"
             /\ Strip(probe.sq.stdout) # ""
             /\ AddressAlone(probe.iq) # None))

(***************************************************************************)
(* Properties of _update_wpa_supplicant (WpaSpec)                          *)
(***************************************************************************)

\* a line that opens a block, a line that closes one
IsOpen(line) == StartsWith(StripSeq(line), <<"network", "=", "{">>)

IsClose(line) == StripSeq(line) = <<"}">>

\* the network blocks of a file, each from its opening line to its closing line
RECURSIVE BlocksFrom(_, _, _)
BlocksFrom(lines, cur, inside) ==
    IF lines = <<>> THEN <<>>
    ELSE LET l == Head(lines) IN
         IF IsOpen(l) THEN BlocksFrom(Tail(lines), <<l>>, TRUE)
         ELSE IF IsClose(l) /\ inside
              THEN <<Append(cur, l)>> \o BlocksFrom(Tail(lines), <<>>, FALSE)
         ELSE IF inside THEN BlocksFrom(Tail(lines), Append(cur, l), TRUE)
         ELSE BlocksFrom(Tail(lines), <<>>, FALSE)

BlocksOf(file) == BlocksFrom(file.lines, <<>>, FALSE)

\* the value of a key=value line: all that follows the first "=", without
\* the white space around it and without the quotes that enclose it
ValueOf(line) ==
    LET v == StripSeq(SubSeq(line, IndexOf(line, "=") + 1, Len(line))) IN
    IF Len(v) >= 2 /\ v[1] = "\"" /\ v[Len(v)] = "\""
    THEN SubSeq(v, 2, Len(v) - 1)
    ELSE v

\* the network name a block is for
RECURSIVE SsidOfBlock(_)
SsidOfBlock(block) ==
    IF block = <<>> THEN NoSsid
    ELSE IF StartsWith(StripSeq(Head(block)), <<"ssid", "=">>)
         THEN ValueOf(Head(block))
         ELSE SsidOfBlock(Tail(block))

\* the blocks of a file that are for the target of the calls, and the others
TargetBlocks(file) ==
    LET ForTarget(b) == SsidOfBlock(b) = wpa.target IN SelectSeq(BlocksOf(file), ForTarget)

OtherBlocks(file) ==
    LET NotForTarget(b) == SsidOfBlock(b) # wpa.target
    IN SelectSeq(BlocksOf(file), NotForTarget)

\* the k-th call returned True
Succeeded(k) == wpa.phase = "calls" /\ Len(wpa.rets) >= k /\ wpa.rets[k]

\* C11 (as claimed): after a successful call, the blocks for other networks
\* are in the file with the same lines and in the same order as before.
C11_OtherBlocksKept ==
    Succeeded(1) => OtherBlocks(wpa.files[1]) = OtherBlocks(wpa.orig)

\* C12 (as claimed): after two successful calls with the same arguments the
\* file holds exactly one block for the target, the one that was there
\* after the first call.
C12_SecondCallChangesNothing ==
    (Succeeded(1) /\ Succeeded(2))
    => /\ Len(TargetBlocks(wpa.files[2])) = 1
       /\ TargetBlocks(wpa.files[2]) = TargetBlocks(wpa.files[1])

\* C13: after every successful call the file ends with the new block: the
\* opening marker, the ssid line, a psk line for a non-empty password and a
\* key_mgmt=NONE line for an empty one, priority=1, the closing marker; it
\* is the last block of the file, and the only one when there was no file.
C13_NewBlockLast ==
    \A k \in 1..2 :
        Succeeded(k)
        => LET f == wpa.files[k].lines
               n == Len(f)
               blocks == BlocksOf(wpa.files[k])
           IN /\ n >= 5
              /\ f[n - 4] = <<"network", "=", "{", "\n">>
              /\ f[n - 3] = <<"    ", "ssid", "=", "\"">> \o wpa.target \o <<"\"", "\n">>
              /\ wpa.pw # <<>>
                 => f[n - 2] = <<"    ", "psk", "=", "\"">> \o wpa.pw \o <<"\"", "\n">>
              /\ wpa.pw = <<>>
                 => f[n - 2] = <<"    ", "key_mgmt", "=", "NONE", "\n">>
              /\ f[n - 1] = <<"    ", "priority", "=", "1", "\n">>
              /\ f[n] = <<"}", "\n">>
              /\ blocks # <<>>
              /\ blocks[Len(blocks)] = SubSeq(f, n - 4, n)
              /\ (k = 1 /\ ~wpa.orig.exists) => Len(blocks) = 1

\* an open network written to a file that did not exist
C13_Witness ==
    /\ Succeeded(1)
    /\ ~wpa.orig.exists
    /\ wpa.pw = <<>>

(***************************************************************************)
(* Properties of scan_networks (ScanSpec)                                  *)
(***************************************************************************)

Numerals == {"0", "5", "35", "70"}

\* a quality field that can be turned into a percentage
ProperRatio(q) ==
    /\ Len(q) = Len(<<"current", "/", "max">>)
    /\ q[1] \in Numerals
    /\ q[2] = "/"
    /\ q[3] \in Numerals \ {"0"}

\* a stanza with no quality field or one that is a proper ratio
WellFormed(s) == s.quality = <<>> \/ ProperRatio(s.quality)

\* a stanza whose quality ratio cannot be turned into a percentage
Unparsable(s) == s.quality # <<>> /\ ~ProperRatio(s.quality)

\* the scan ran and returned
Scanned == scan.phase = "done" /\ scan.run = "completed"

\* the position in the scan output of the stanza a record comes from
StanzaOf(n) == CHOOSE i \in 1..Len(Bssids) : Bssids[i] = n["bssid"]

\* what the sort compares: the quality, 0 when absent
QualityOrZero(n) == IF "quality" \in DOMAIN n THEN n["quality"] ELSE 0

\* every stanza of the output has its record in the result
EveryStanzaHasRecord ==
    /\ Len(scan.result) = Len(scan.stanzas)
    /\ \A i \in 1..Len(scan.stanzas) :
          \E k \in 1..Len(scan.result) :
              "bssid" \in DOMAIN scan.result[k] /\ scan.result[k]["bssid"] = Bssids[i]

\* C14: for a scan output of N well-formed stanzas, scan_networks returns
\* exactly N records, one per stanza, in order of non-increasing quality
\* (absent counted as 0), records of equal quality in stanza order.
C14_SortedStable ==
    (Scanned /\ \A i \in 1..Len(scan.stanzas) : WellFormed(scan.stanzas[i]))
    => /\ EveryStanzaHasRecord
       /\ \A a, b \in 1..Len(scan.result) :
             a < b =>
               /\ QualityOrZero(scan.result[a]) >= QualityOrZero(scan.result[b])
               /\ (QualityOrZero(scan.result[a]) = QualityOrZero(scan.result[b])
                     => StanzaOf(scan.result[a]) < StanzaOf(scan.result[b]))

\* a scan of MaxStanzas well-formed stanzas that the sort had to reorder,
\* with two records of equal quality and one without a quality
C14_Witness ==
    /\ Scanned
    /\ Len(scan.stanzas) = MaxStanzas
    /\ \A i \in 1..Len(scan.stanzas) : WellFormed(scan.stanzas[i])
    /\ Len(scan.result) = MaxStanzas
    /\ \E a, b \in 1..Len(scan.result) :
          /\ a < b
          /\ QualityOrZero(scan.result[a]) = QualityOrZero(scan.result[b])
          /\ QualityOrZero(scan.result[a]) > 0
    /\ \E a, b \in 1..Len(scan.result) :
          a < b /\ StanzaOf(scan.result[a]) > StanzaOf(scan.result[b])
    /\ \E a \in 1..Len(scan.result) : "quality" \notin DOMAIN scan.result[a]

\* C15: a stanza whose quality ratio cannot be turned into a percentage
\* yields a record without a quality field, and every stanza of the same
\* output still yields its record.
C15_UnparsableQualityTolerated ==
    Scanned =>
      /\ EveryStanzaHasRecord
      /\ \A k \in 1..Len(scan.result) :
            Unparsable(scan.stanzas[StanzaOf(scan.result[k])])
              => "quality" \notin DOMAIN scan.result[k]

(***************************************************************************)
(* Properties of cleanup, connect and the stored fields (Spec)             *)
(***************************************************************************)

\* C21 (as claimed): a cleanup calls stop_hotspot exactly when the hotspot
\* is active; when it is over hotspot_active is false, and a cleanup that
\* finds the hotspot inactive issues no command and changes no field.
C21_CleanupIdempotent ==
    (Completed /\ op = "cleanup")
    => /\ ~hotspot_active
       /\ pre.hotspot_active <=> Issued("hotspot.sh stop")
       /\ ~pre.hotspot_active => (log = <<>> /\ State = pre)

\* a call of connect has begun with a configured ssid
ConnectDelegated == op = "connect" /\ Truthy(pre.config_ssid)

\* C22: connect with no configured ssid returns False, issues no command
\* and changes no field; with a configured ssid it is a call of
\* connect_to_network with the stored ssid and password: it enters the body
\* with these arguments, and ends as that call ends (C4, C25).
C22_ConnectDelegates ==
    /\ (Completed /\ op = "connect" /\ ~Truthy(pre.config_ssid))
       => (ret = "False" /\ log = <<>> /\ State = pre /\ stop_ret = "none")
    /\ ConnectDelegated
       => /\ caller = "connect_to_network"
          /\ ssid = pre.config_ssid
          /\ password = pre.config_password
          /\ (pc # "sh_script" /\ pre.hotspot_active)
               => log[1][1] = "hotspot.sh stop"
    /\ (Completed /\ ConnectDelegated /\ ret = "True")
       => /\ connected /\ ~hotspot_active
          /\ current_ssid = pre.config_ssid
          /\ config_ssid = pre.config_ssid
          /\ config_password = pre.config_password
    /\ (Completed /\ ConnectDelegated /\ ret = "False")
       => (connected = pre.connected /\ current_ssid = pre.current_ssid)

\* a connect with stored credentials that stopped the hotspot and succeeded
C22_Witness ==
    /\ Completed /\ ConnectDelegated /\ ret = "True"
    /\ pre.hotspot_active
    /\ pre.config_password # ""

\* C25: when a call is over, the stored credentials are the requested ones
\* if it was a connect_to_network that returned True, and otherwise what
\* they were when the call began; while a call runs they change only in
\* the two assignments of a successful connect_to_network.
C25_CredentialsFrame ==
    /\ Completed
       => IF RanConnect /\ ret = "True"
          THEN config_ssid = ssid /\ config_password = password
          ELSE config_ssid = pre.config_ssid /\ config_password = pre.config_password
    /\ (~Completed /\ pc # "ctn_set_config_password")
       => (config_ssid = pre.config_ssid /\ config_password = pre.config_password)

\* a connect_to_network that succeeded and replaced other credentials
C25_Witness ==
    /\ Completed /\ op = "connect_to_network" /\ ret = "True"
    /\ Truthy(pre.config_ssid)
    /\ pre.config_ssid # config_ssid
    /\ pre.config_password # config_password

\* C26 (as claimed): after every completed call, a manager that is neither
\* connected nor a hotspot stores no address.
C26_AddressOnlyInMode ==
    Completed => ((~connected /\ ~hotspot_active) => ip_address = None)

(***************************************************************************)
(* Properties of interleaved reads (RaceSpec)                              *)
(***************************************************************************)

\* a status has been returned to a caller
StatusRead == Returned

\* C23 (as claimed): no status returned, also to a caller that reads while
\* connect_to_network or start_hotspot is between its assignments, has
\* connected and hotspot_active both true, or hotspot_active true with a
\* current_ssid that is not None.
C23_ReadsConsistent ==
    StatusRead
    => /\ ~(reader.status.connected /\ reader.status.hotspot_active)
       /\ reader.status.hotspot_active => reader.status.current_ssid = None

(***************************************************************************)
(* Termination of connect_to_network (LiveSpec)                            *)
(***************************************************************************)

\* the body of connect_to_network is running
InConnect == RanConnect /\ pc # "idle"

\* the last poll reported a link on the requested ssid
LastPollMatched ==
    Get(network_info, "connected") = TRUE /\ Get(network_info, "ssid") = ssid

\* what holds of the poll loop in every state: never more than MaxPolls
\* polls; no poll after one that matched; after the last poll, unmatched,
\* nothing but the return of False
PollBudget ==
    /\ attempt \in 0..MaxPolls
    /\ (pc = "ctn_poll" /\ attempt > 0) => ~LastPollMatched
    /\ (Completed /\ RanConnect /\ attempt = MaxPolls /\ ~LastPollMatched)
       => ret = "False"
    /\ (Completed /\ RanConnect /\ attempt > 0 /\ LastPollMatched) => ret = "True"

\* C24: every call of connect_to_network returns, after at most MaxPolls
\* polls: it stops polling at the first poll that matches and returns False
\* after the last one if none did.
C24_ConnectReturns == []PollBudget /\ (InConnect ~> Completed)

\* connect_to_network returned False after MaxPolls polls, none matching
C24_Witness ==
    /\ Completed /\ RanConnect /\ ret = "False"
    /\ attempt = MaxPolls
    /\ ~LastPollMatched

(***************************************************************************)
(* Well-formedness of the configuration file (WpaSpec)                     *)
(***************************************************************************)

\* every opening marker is outside a block and is closed, and every closing
\* marker closes the block opened last
RECURSIVE Balanced(_, _)
Balanced(lines, inside) ==
    IF lines = <<>> THEN ~inside
    ELSE IF IsOpen(Head(lines)) THEN ~inside /\ Balanced(Tail(lines), TRUE)
    ELSE IF IsClose(Head(lines)) THEN inside /\ Balanced(Tail(lines), FALSE)
    ELSE Balanced(Tail(lines), inside)

\* the lines of a file that are in no block
RECURSIVE Outside(_, _)
Outside(lines, inside) ==
    IF lines = <<>> THEN <<>>
    ELSE IF IsOpen(Head(lines)) THEN Outside(Tail(lines), TRUE)
    ELSE IF IsClose(Head(lines)) THEN Outside(Tail(lines), FALSE)
    ELSE IF inside THEN Outside(Tail(lines), TRUE)
    ELSE <<Head(lines)>> \o Outside(Tail(lines), FALSE)

IsPrefix(s, u) == Len(s) <= Len(u) /\ SubSeq(u, 1, Len(s)) = s

\* the first call met no failure of the file system
FirstCallUnhindered == wpa.phase = "calls" /\ Len(wpa.ios) >= 1 /\ wpa.ios[1] = "ok"

\* C27 (as claimed): on a file whose opening markers are each matched by a
\* closing marker, a call that meets no failure of the file system succeeds,
\* every closing marker of the written file closes a block that was opened,
\* and the lines outside blocks are kept in their order.
C27_StaysWellFormed ==
    (FirstCallUnhindered /\ Balanced(wpa.orig.lines, FALSE))
    => /\ wpa.rets[1]
       /\ Balanced(wpa.files[1].lines, FALSE)
       /\ IsPrefix(Outside(wpa.orig.lines, FALSE), Outside(wpa.files[1].lines, FALSE))

(***************************************************************************)
(* Freshness of the dashboard cache (DashSpec)                             *)
(***************************************************************************)

\* the last request was a get_dashboard answered from the cache
ServedFromCache == dash.last.op = "get_dashboard" /\ dash.last.outcome = "cached"

\* C28: get_dashboard answers from the cache only with the value it built
\* less than CacheTtl seconds before, with no invalidation and no finished
\* change of the media in between; once upload_media, activate_media or
\* delete_media has succeeded nothing is cached, so the next get_dashboard
\* rebuilds.
C28_CacheFresh ==
    /\ ServedFromCache
       => /\ dash.last.value.kind = "data"
          /\ dash.last.value = dash.cache
          /\ dash.last.at - dash.last.value.built < CacheTtl
          /\ dash.fresh
          /\ dash.last.value.committed = dash.committed
    /\ (dash.last.op \in Mutations \ {"cleanup_orphaned_media"}
        /\ dash.last.outcome = "ok")
       => dash.cache = NoCache
    /\ (dash.last.op = "get_dashboard" /\ dash.last.outcome = "rebuilt")
       => /\ dash.last.value.built = dash.last.at
          /\ dash.last.value.media = dash.media \/ dash.upload = "stored"

\* a value cached after a change of the media, served again some seconds
\* after it was built
C28_Witness ==
    /\ ServedFromCache
    /\ dash.last.value.committed > 0
    /\ dash.last.at > dash.last.value.built

====
